---- MODULE Spec2Model ----
(***************************************************************************)
(* The editor suggestion workflow of doc-app (EnhancedEditor in            *)
(* src/doc-app/src/app/components/Editor.tsx).                             *)
(*                                                                         *)
(* The document is the text content of the contentEditable element, a      *)
(* sequence of characters.  A DOM Range is a pair of boundary offsets      *)
(* s <= e into that text; the window selection is one such range (a        *)
(* collapsed one, s = e, is a caret) or no range at all.  One step is one  *)
(* event handler or one continuation of an async handler: the UI thread    *)
(* runs each to completion and React commits its state updates before the  *)
(* next event is dispatched.                                               *)
(***************************************************************************)
EXTENDS Integers, Sequences, FiniteSets, TLC

\* ---- bounds -------------------------------------------------------------
DocLen == 2
MaxTriggers == 2
MaxChecks == 1

\* ---- alphabets ----------------------------------------------------------
\* the document at mount: single-letter words separated by single spaces
InitDoc == [i \in 1..DocLen |-> IF i % 2 = 1 THEN "a" ELSE " "]
Actions == {"edit", "shorten"}
\* texts the completion provider may put in data.response; <<>> is a missing
\* or empty response field
Responses == {<<>>, <<"x">>}
FailKinds == {"network", "401", "500"}

\* ---- text helpers -------------------------------------------------------
IsSpace(c) == c = " "

RECURSIVE TrimStart(_)
TrimStart(t) ==
  IF t # <<>> /\ IsSpace(Head(t)) THEN TrimStart(Tail(t)) ELSE t

RECURSIVE TrimEnd(_)
TrimEnd(t) ==
  IF t # <<>> /\ IsSpace(t[Len(t)]) THEN TrimEnd(SubSeq(t, 1, Len(t) - 1)) ELSE t

\* String.prototype.trim
Trim(t) == TrimEnd(TrimStart(t))

\* ---- ranges -------------------------------------------------------------
NoRange == [s |-> -1, e |-> -1]
Ranges(d) == {[s |-> i, e |-> j] : i \in 0..Len(d), j \in 0..Len(d)} \cap
             {r \in [s : 0..Len(d), e : 0..Len(d)] : r.s <= r.e}

\* Range.toString / Selection.toString
RangeText(d, r) == IF r = NoRange THEN <<>> ELSE SubSeq(d, r.s + 1, r.e)

\* range.deleteContents(); range.insertNode(createTextNode(t))
ReplaceRange(d, r, t) == SubSeq(d, 1, r.s) \o t \o SubSeq(d, r.e + 1, Len(d))

EmptyPreview ==
  [original |-> <<>>, suggested |-> <<>>, actionType |-> "", selectionRange |-> NoRange]

\* history of a provider call: the document and its version when it started
NoReq == [id |-> 0, docAtTrig |-> <<>>, version |-> 0]

\* no editorInsertContent call is between its two DOM operations
NoCall == [html |-> <<>>, at |-> -1]
\* nothing was called through the bridge yet
NoLog == [op |-> "", mode |-> "", arg |-> <<>>, docBefore |-> <<>>,
          selBefore |-> NoRange, result |-> <<>>, error |-> ""]
\* no command was handled yet
NoOut == [handler |-> "", command |-> <<>>, intent |-> "", action |-> "",
          needsEditor |-> FALSE, arg |-> <<>>, provider |-> "", reply |-> "", n |-> 0,
          calls |-> 0, rejected |-> FALSE, outcome |-> "", docAtSubmit |-> <<>>,
          results |-> <<>>, inserted |-> <<>>, docAtSettle |-> <<>>, readyAtWrite |-> 0,
          messages |-> <<>>, isLoading |-> FALSE, hasEditorAction |-> FALSE]

\* useState(null), useState(null), useState(true); an empty localStorage
None == ""
NoSession ==
  [token |-> None, user |-> None, isLoading |-> TRUE,
   storedToken |-> None, storedUser |-> None,
   pending |-> {}, n |-> 0, mounted |-> FALSE, last |-> "", threw |-> FALSE]

VARIABLES
  doc,                 \* contentRef.current.textContent
  sel,                 \* window.getSelection(): its range, or NoRange
  selectedText,        \* useState('')
  showFloatingToolbar, \* useState(false)
  isProcessing,        \* useState(false)
  isConnected,         \* useState(false)
  connectionChecked,   \* useState(false)
  pendingChecks,       \* /health requests in flight
  showPreviewModal,    \* useState(false)
  previewData,         \* useState({original, suggested, actionType, selectionRange})
  requests,            \* handleFloatingAction invocations suspended at the await
  readyOf,             \* history: the request whose response filled previewData
  nTriggers,           \* history: number of provider calls started so far
  docVersion,          \* history: number of document mutations so far
  lastOp,              \* history: the handler that ran last
  lastAlert,           \* text of the alert() raised by the last handler, "" if none
  isPreview,           \* useState(false): the preview toggle of the toolbar
  bridgeCall,          \* the editorInsertContent call in progress, or NoCall
  bridgeLog,           \* history: the last call made through the window bridge
  input,               \* the command typed into the chat sidebar or the agent box
  chatOut,             \* what the command handler did with input
  auth                 \* AuthProvider: its state, localStorage and its calls in flight

vars == <<doc, sel, selectedText, showFloatingToolbar, isProcessing, isConnected,
          connectionChecked, pendingChecks, showPreviewModal, previewData,
          requests, readyOf, nTriggers, docVersion, lastOp, lastAlert,
          isPreview, bridgeCall, bridgeLog, input, chatOut, auth>>

\* what the handlers of the suggestion workflow leave alone: the state of the
\* bridge, of the command handlers and of the AuthProvider
auxVars == <<isPreview, bridgeCall, bridgeLog, input, chatOut, auth>>
\* what the bridge and the command handlers leave alone: the React state of
\* the suggestion workflow and the state of the AuthProvider
workflowVars == <<selectedText, showFloatingToolbar, isProcessing, isConnected,
                  connectionChecked, pendingChecks, showPreviewModal, previewData,
                  requests, readyOf, nTriggers, docVersion, lastOp, lastAlert, auth>>

\* the workflow variables an assignment to innerHTML leaves alone
workflowVarsButPreview ==
  <<selectedText, showFloatingToolbar, isProcessing, isConnected, connectionChecked,
    pendingChecks, showPreviewModal, requests, readyOf, nTriggers, docVersion,
    lastOp, lastAlert, auth>>

\* the editor after construction
InitWorkflow ==
  /\ doc = InitDoc
  /\ sel = NoRange
  /\ selectedText = <<>>
  /\ showFloatingToolbar = FALSE
  /\ isProcessing = FALSE
  /\ isConnected = FALSE
  /\ connectionChecked = FALSE
  /\ pendingChecks = 1
  /\ showPreviewModal = FALSE
  /\ previewData = EmptyPreview
  /\ requests = {}
  /\ readyOf = NoReq
  /\ nTriggers = 0
  /\ docVersion = 0
  /\ lastOp = "other"
  /\ lastAlert = ""

\* the editor after construction, nobody signed in and nothing remembered
InitEditor ==
  /\ InitWorkflow
  /\ auth = NoSession

\* no bridge call made and no command typed yet
InitAux ==
  /\ isPreview = FALSE
  /\ bridgeCall = NoCall
  /\ bridgeLog = NoLog
  /\ input = <<>>
  /\ chatOut = NoOut

Init == InitEditor /\ InitAux

\* ---- connection check ---------------------------------------------------
\* the /health fetch of checkConnection settles; ok is response.ok (FALSE
\* also stands for a rejected fetch)
checkConnection(ok) ==
  /\ UNCHANGED auxVars
  /\ pendingChecks > 0
  /\ pendingChecks' = pendingChecks - 1
  /\ isConnected' = ok
  /\ connectionChecked' = TRUE
  /\ lastOp' = "other"
  /\ lastAlert' = ""
  /\ UNCHANGED <<doc, sel, selectedText, showFloatingToolbar, isProcessing,
                 showPreviewModal, previewData, requests, readyOf, nTriggers,
                 docVersion>>

\* the "Retry Connection" button of the status bar
RetryConnection ==
  /\ UNCHANGED auxVars
  /\ connectionChecked /\ ~isConnected
  /\ pendingChecks < MaxChecks
  /\ pendingChecks' = pendingChecks + 1
  /\ lastOp' = "other"
  /\ lastAlert' = ""
  /\ UNCHANGED <<doc, sel, selectedText, showFloatingToolbar, isProcessing,
                 isConnected, connectionChecked, showPreviewModal, previewData,
                 requests, readyOf, nTriggers, docVersion>>

\* ---- selection capture --------------------------------------------------
\* the user releases the mouse over the editable surface, leaving the
\* selection r; onMouseUp runs handleMouseUp
handleMouseUp(r) ==
  /\ UNCHANGED auxVars
  /\ r \in Ranges(doc)
  /\ sel' = r
  /\ LET text == Trim(RangeText(doc, r)) IN
       IF text # <<>>
         THEN /\ selectedText' = text
              /\ showFloatingToolbar' = TRUE
              /\ lastOp' = "other"
         ELSE /\ showFloatingToolbar' = FALSE
              /\ lastOp' = "mouseUpEmpty"
              /\ UNCHANGED selectedText
  /\ lastAlert' = ""
  /\ UNCHANGED <<doc, isProcessing, isConnected, connectionChecked, pendingChecks,
                 showPreviewModal, previewData, requests, readyOf, nTriggers,
                 docVersion>>

\* the selection changes without a mouseup on the editable surface (arrow
\* or shift-arrow keys, a mouse release outside the editor): no handler runs
SelectionChange(r) ==
  /\ UNCHANGED auxVars
  /\ r \in Ranges(doc)
  /\ sel # NoRange
  /\ r # sel
  /\ sel' = r
  /\ lastOp' = "other"
  /\ lastAlert' = ""
  /\ UNCHANGED <<doc, selectedText, showFloatingToolbar, isProcessing, isConnected,
                 connectionChecked, pendingChecks, showPreviewModal, previewData,
                 requests, readyOf, nTriggers, docVersion>>

\* ---- floating toolbar ---------------------------------------------------
\* {showFloatingToolbar && selectedText && !isPreview && <FloatingToolbar/>}
ToolbarRendered == showFloatingToolbar /\ selectedText # <<>> /\ ~isPreview

\* faulty variant: the action buttons stay clickable while a request is outstanding
ButtonEnabledAlways == TRUE

\* <button disabled={isProcessing}>
ButtonEnabled == ~isProcessing

\* a click on one of the toolbar's action buttons: handleFloatingAction up to
\* its await.  callAIForEdit's own guard (!isConnected || !token) reads the
\* same render's values and cannot fire once this handler's guard has passed.
handleFloatingAction(action) ==
  /\ UNCHANGED auxVars
  /\ ToolbarRendered
  /\ ButtonEnabled
  /\ nTriggers < MaxTriggers
  /\ IF selectedText = <<>> \/ ~isConnected
       THEN /\ lastAlert' = IF ~isConnected
                              THEN "Please check your connection to use AI editing features"
                              ELSE ""
            /\ lastOp' = "triggerRejected"
            /\ UNCHANGED <<isProcessing, showFloatingToolbar, requests, nTriggers>>
       ELSE /\ isProcessing' = TRUE
            /\ showFloatingToolbar' = FALSE
            /\ nTriggers' = nTriggers + 1
            /\ requests' = requests \cup
                 {[id |-> nTriggers + 1, text |-> selectedText, action |-> action,
                   anchor |-> sel, docAtTrig |-> doc, version |-> docVersion]}
            /\ lastOp' = "trigger"
            /\ lastAlert' = ""
  /\ UNCHANGED <<doc, sel, selectedText, isConnected, connectionChecked,
                 pendingChecks, showPreviewModal, previewData, readyOf, docVersion>>

\* callAIForEdit: return data.response || text
Suggestion(resp, text) == IF resp # <<>> THEN resp ELSE text

\* faulty variant: the response is written into the document as soon as it arrives
ResponseOkApplies(req, resp) ==
  /\ UNCHANGED auxVars
  /\ req \in requests
  /\ requests' = requests \ {req}
  /\ IF sel # NoRange
       THEN /\ doc' = ReplaceRange(doc, sel, Suggestion(resp, req.text))
            /\ sel' = [s |-> sel.s, e |-> sel.s + Len(Suggestion(resp, req.text))]
            /\ docVersion' = docVersion + 1
       ELSE UNCHANGED <<doc, sel, docVersion>>
  /\ isProcessing' = FALSE
  /\ lastOp' = "responseOk"
  /\ lastAlert' = ""
  /\ UNCHANGED <<selectedText, showFloatingToolbar, isConnected, connectionChecked,
                 pendingChecks, nTriggers, previewData, showPreviewModal, readyOf>>

\* faulty variant: the suggestion is stored and shown though there is no range
ResponseOkStoresWithoutRange(req, resp) ==
  /\ UNCHANGED auxVars
  /\ req \in requests
  /\ requests' = requests \ {req}
  /\ previewData' = [original |-> req.text,
                     suggested |-> Suggestion(resp, req.text),
                     actionType |-> req.action,
                     selectionRange |-> sel]
  /\ showPreviewModal' = TRUE
  /\ readyOf' = [id |-> req.id, docAtTrig |-> req.docAtTrig, version |-> req.version]
  /\ isProcessing' = FALSE
  /\ lastOp' = "responseOk"
  /\ lastAlert' = ""
  /\ UNCHANGED <<doc, sel, selectedText, showFloatingToolbar, isConnected,
                 connectionChecked, pendingChecks, nTriggers, docVersion>>

\* the provider answers req with a success status: the rest of
\* handleFloatingAction's try block, then its finally
ResponseOk(req, resp) ==
  /\ UNCHANGED auxVars
  /\ req \in requests
  /\ requests' = requests \ {req}
  /\ IF sel # NoRange
       THEN /\ previewData' = [original |-> req.text,
                               suggested |-> Suggestion(resp, req.text),
                               actionType |-> req.action,
                               selectionRange |-> sel]
            /\ showPreviewModal' = TRUE
            /\ readyOf' = [id |-> req.id, docAtTrig |-> req.docAtTrig,
                            version |-> req.version]
       ELSE UNCHANGED <<previewData, showPreviewModal, readyOf>>
  /\ isProcessing' = FALSE
  /\ lastOp' = "responseOk"
  /\ lastAlert' = ""
  /\ UNCHANGED <<doc, sel, selectedText, showFloatingToolbar, isConnected,
                 connectionChecked, pendingChecks, nTriggers, docVersion>>

\* the message of the Error that callAIForEdit throws
ErrorMessage(kind) ==
  CASE kind = "401" -> "Authentication failed. Please login again."
    [] kind = "500" -> "Server error: 500"
    [] OTHER -> "Failed to fetch"

\* faulty variant: a failed call still opens the preview, offering the original text
ResponseFailKeepsOriginal(req, kind) ==
  /\ UNCHANGED auxVars
  /\ req \in requests
  /\ requests' = requests \ {req}
  /\ previewData' = [original |-> req.text, suggested |-> req.text,
                     actionType |-> req.action, selectionRange |-> sel]
  /\ showPreviewModal' = TRUE
  /\ readyOf' = [id |-> req.id, docAtTrig |-> req.docAtTrig, version |-> req.version]
  /\ isProcessing' = FALSE
  /\ lastOp' = "responseFail"
  /\ lastAlert' = "AI editing failed: " \o ErrorMessage(kind)
  /\ UNCHANGED <<doc, sel, selectedText, showFloatingToolbar, isConnected,
                 connectionChecked, pendingChecks, nTriggers, docVersion>>

\* faulty variant: there is no finally block, a failed call leaves isProcessing set
ResponseFailWithoutFinally(req, kind) ==
  /\ UNCHANGED auxVars
  /\ req \in requests
  /\ requests' = requests \ {req}
  /\ lastOp' = "responseFail"
  /\ lastAlert' = "AI editing failed: " \o ErrorMessage(kind)
  /\ UNCHANGED <<doc, sel, selectedText, showFloatingToolbar, isProcessing, isConnected,
                 connectionChecked, pendingChecks, showPreviewModal, previewData,
                 readyOf, nTriggers, docVersion>>

\* the provider call of req fails: handleFloatingAction's catch, then finally
ResponseFail(req, kind) ==
  /\ UNCHANGED auxVars
  /\ req \in requests
  /\ requests' = requests \ {req}
  /\ isProcessing' = FALSE
  /\ lastOp' = "responseFail"
  /\ lastAlert' = "AI editing failed: " \o ErrorMessage(kind)
  /\ UNCHANGED <<doc, sel, selectedText, showFloatingToolbar, isConnected,
                 connectionChecked, pendingChecks, showPreviewModal, previewData,
                 readyOf, nTriggers, docVersion>>

\* ---- preview modal ------------------------------------------------------
\* the document handlePreviewAccept leaves, given the previewData it reads
AcceptDoc(pd, d) ==
  IF pd.selectionRange # NoRange /\ pd.suggested # <<>>
    THEN ReplaceRange(d, pd.selectionRange, pd.suggested)
    ELSE d

\* the selection handlePreviewAccept leaves: collapsed after the inserted text
AcceptSel(pd, cur) ==
  IF pd.selectionRange # NoRange /\ pd.suggested # <<>>
    THEN [s |-> pd.selectionRange.s + Len(pd.suggested),
          e |-> pd.selectionRange.s + Len(pd.suggested)]
    ELSE cur

\* "Accept Changes" in the preview modal
handlePreviewAccept ==
  /\ UNCHANGED auxVars
  /\ showPreviewModal
  /\ doc' = AcceptDoc(previewData, doc)
  /\ sel' = AcceptSel(previewData, sel)
  /\ docVersion' = IF doc' # doc THEN docVersion + 1 ELSE docVersion
  /\ showPreviewModal' = FALSE
  /\ previewData' = EmptyPreview
  /\ readyOf' = NoReq
  /\ lastOp' = "accept"
  /\ lastAlert' = ""
  /\ UNCHANGED <<selectedText, showFloatingToolbar, isProcessing, isConnected,
                 connectionChecked, pendingChecks, requests, nTriggers>>

\* faulty variant: "Keep Original" runs the accept handler's replacement
handlePreviewRejectApplies ==
  /\ UNCHANGED auxVars
  /\ showPreviewModal
  /\ doc' = AcceptDoc(previewData, doc)
  /\ sel' = AcceptSel(previewData, sel)
  /\ docVersion' = IF doc' # doc THEN docVersion + 1 ELSE docVersion
  /\ showPreviewModal' = FALSE
  /\ previewData' = EmptyPreview
  /\ readyOf' = NoReq
  /\ lastOp' = "reject"
  /\ lastAlert' = ""
  /\ UNCHANGED <<selectedText, showFloatingToolbar, isProcessing, isConnected,
                 connectionChecked, pendingChecks, requests, nTriggers>>

\* faulty variant: "Keep Original" only closes the modal, as the unused onClose prop does
handlePreviewRejectCloseOnly ==
  /\ UNCHANGED auxVars
  /\ showPreviewModal
  /\ showPreviewModal' = FALSE
  /\ lastOp' = "reject"
  /\ lastAlert' = ""
  /\ UNCHANGED <<doc, sel, selectedText, showFloatingToolbar, isProcessing,
                 isConnected, connectionChecked, pendingChecks, requests,
                 nTriggers, docVersion, previewData, readyOf>>

\* "Keep Original" in the preview modal
handlePreviewReject ==
  /\ UNCHANGED auxVars
  /\ showPreviewModal
  /\ showPreviewModal' = FALSE
  /\ previewData' = EmptyPreview
  /\ readyOf' = NoReq
  /\ lastOp' = "reject"
  /\ lastAlert' = ""
  /\ UNCHANGED <<doc, sel, selectedText, showFloatingToolbar, isProcessing,
                 isConnected, connectionChecked, pendingChecks, requests,
                 nTriggers, docVersion>>

Next ==
  \/ \E ok \in BOOLEAN : checkConnection(ok)
  \/ RetryConnection
  \/ \E s \in 0..Len(doc), e \in 0..Len(doc) : handleMouseUp([s |-> s, e |-> e])
  \/ \E s \in 0..Len(doc), e \in 0..Len(doc) : SelectionChange([s |-> s, e |-> e])
  \/ \E a \in Actions : handleFloatingAction(a)
  \/ \E req \in requests, resp \in Responses : ResponseOk(req, resp)
  \/ \E req \in requests, kind \in FailKinds : ResponseFail(req, kind)
  \/ handlePreviewAccept
  \/ handlePreviewReject

Spec == Init /\ [][Next]_vars

\* ---- a selection that goes away ------------------------------------------
\* the window's selection loses its range (removeAllRanges by the browser or
\* by another script, focus moving off the page): rangeCount is 0 afterwards
\* and no handler of the editor runs
SelectionCleared ==
  /\ UNCHANGED auxVars
  /\ sel # NoRange
  /\ sel' = NoRange
  /\ lastOp' = "other"
  /\ lastAlert' = ""
  /\ UNCHANGED <<doc, selectedText, showFloatingToolbar, isProcessing, isConnected,
                 connectionChecked, pendingChecks, showPreviewModal, previewData,
                 requests, readyOf, nTriggers, docVersion>>

NextCleared ==
  \/ \E ok \in BOOLEAN : checkConnection(ok)
  \/ RetryConnection
  \/ \E s \in 0..Len(doc), e \in 0..Len(doc) : handleMouseUp([s |-> s, e |-> e])
  \/ \E s \in 0..Len(doc), e \in 0..Len(doc) : SelectionChange([s |-> s, e |-> e])
  \/ SelectionCleared
  \/ \E a \in Actions : handleFloatingAction(a)
  \/ \E req \in requests, resp \in Responses : ResponseOk(req, resp)
  \/ \E req \in requests, kind \in FailKinds : ResponseFail(req, kind)
  \/ handlePreviewAccept
  \/ handlePreviewReject

SpecCleared == Init /\ [][NextCleared]_vars

\* the promise of an outstanding fetch settles: it resolves with a response
\* or it rejects
Settles ==
  \E req \in requests :
    \/ \E resp \in Responses : ResponseOk(req, resp)
    \/ \E kind \in FailKinds : ResponseFail(req, kind)

\* every fetch settles
SpecLive == Init /\ [][NextCleared]_vars /\ WF_vars(Settles)

\* ---- steps, as seen from a pair of states -------------------------------
\* handleFloatingAction ran (it started a call, or it returned at its guard)
TriggerStep == nTriggers' = nTriggers + 1 \/ lastOp' = "triggerRejected"
\* the call of req settled with a success status
OkStep(req) == lastOp' = "responseOk" /\ req \notin requests'
\* the call of req failed
FailStep(req) == lastOp' = "responseFail" /\ req \notin requests'
AcceptStep == showPreviewModal /\ lastOp' = "accept"
RejectStep == showPreviewModal /\ lastOp' = "reject"
\* handleMouseUp ran and found no selected text
EmptyMouseUpStep == lastOp' = "mouseUpEmpty"
Collapsed(r) == r = NoRange \/ r.s = r.e

\* ---- C1 -----------------------------------------------------------------
\* C1: the range stored in the PendingSuggestion when a call succeeds is the
\* selection that was live when the transform was triggered, so Accept
\* replaces that region and no other.
C1_AnchorIsTriggerSelection ==
  [][\A req \in requests :
       OkStep(req) =>
         /\ showPreviewModal'
         /\ previewData'.selectionRange = req.anchor
         /\ AcceptDoc(previewData', doc') =
              ReplaceRange(req.docAtTrig, req.anchor, previewData'.suggested)]_vars

\* ---- C3 -----------------------------------------------------------------
\* C3: in every reachable state at most one transform request is
\* outstanding; the single previewData slot holds at most one suggestion.
C3_AtMostOneOutstanding ==
  /\ Cardinality(requests) <= 1
  /\ (requests # {} => isProcessing)

\* a request is outstanding, the toolbar is on screen again and a further
\* call would be within the bound: only the disabled buttons stop it
C3_Witness ==
  /\ requests # {}
  /\ ToolbarRendered
  /\ isConnected
  /\ nTriggers < MaxTriggers

\* ---- C4 -----------------------------------------------------------------
\* C4: Accept replaces exactly the stored original text by the suggestion:
\* the text of the stored range is the stored original, and the document's
\* length changes by len(suggested) - len(original).
C4_AcceptReplacesOriginal ==
  [][AcceptStep =>
       /\ RangeText(doc, previewData.selectionRange) = previewData.original
       /\ doc' = ReplaceRange(doc, previewData.selectionRange, previewData.suggested)
       /\ Len(doc') - Len(doc) =
            Len(previewData.suggested) - Len(previewData.original)]_vars

C6_OnlyAcceptWrites ==
  [][doc' # doc => AcceptStep]_vars

\* a suggestion is Ready and the document is still the one read at trigger
C6_Witness ==
  /\ showPreviewModal
  /\ lastOp = "responseOk"
  /\ previewData.suggested # previewData.original
  /\ readyOf.docAtTrig = doc
  /\ readyOf.version = docVersion

\* ---- C7 -----------------------------------------------------------------
\* C7: when the provider call fails the attempt is discarded: isProcessing
\* is reset, previewData and the modal stay as they were (empty and closed
\* when no earlier suggestion is on screen), the document is unchanged and
\* an alert is raised.
C7_FailureDiscardsAttempt ==
  [][\A req \in requests :
       FailStep(req) =>
         /\ ~isProcessing'
         /\ requests' = {}
         /\ previewData' = previewData
         /\ showPreviewModal' = showPreviewModal
         /\ (~showPreviewModal =>
              previewData' = EmptyPreview /\ ~showPreviewModal')
         /\ doc' = doc
         /\ lastAlert' # ""]_vars

C7_Witness ==
  /\ lastOp = "responseFail"
  /\ lastAlert = "AI editing failed: Server error: 500"
  /\ ~showPreviewModal
  /\ previewData = EmptyPreview
  /\ ~isProcessing
  /\ doc = InitDoc

\* ---- C8 -----------------------------------------------------------------
\* C8: right after Accept or Reject the modal is closed and previewData is
\* reset, so the accept handler run again on that state leaves the document
\* as it is.
C8_ClearedAfterDecision ==
  lastOp \in {"accept", "reject"} =>
    /\ ~showPreviewModal
    /\ previewData = EmptyPreview
    /\ readyOf = NoReq
    /\ AcceptDoc(previewData, doc) = doc

C8_Witness ==
  /\ lastOp = "accept"
  /\ docVersion >= 1
  /\ doc # InitDoc

\* ---- C9 -----------------------------------------------------------------
\* C9: a trigger with no snapshot or with an empty live selection is
\* rejected: no provider call, no change of isProcessing, toolbar visibility
\* or previewData, and a notice is raised.
C9_EmptySelectionRejected ==
  [][(TriggerStep /\ (selectedText = <<>> \/ Collapsed(sel))) =>
       /\ requests' = requests
       /\ nTriggers' = nTriggers
       /\ isProcessing' = isProcessing
       /\ showFloatingToolbar' = showFloatingToolbar
       /\ previewData' = previewData
       /\ lastAlert' # ""]_vars

\* ---- C10 ----------------------------------------------------------------
\* C10: a mouseup that leaves the selection empty hides the toolbar and
\* leaves requests and previewData alone, and a request that then succeeds
\* reaches Ready with its original text and its trigger-time range.
C10_EmptySelectionKeepsPending ==
  [][/\ EmptyMouseUpStep =>
          /\ ~showFloatingToolbar'
          /\ requests' = requests
          /\ previewData' = previewData
          /\ showPreviewModal' = showPreviewModal
     /\ \A req \in requests :
          (lastOp = "mouseUpEmpty" /\ OkStep(req)) =>
            /\ showPreviewModal'
            /\ previewData'.original = req.text
            /\ previewData'.selectionRange = req.anchor]_vars

\* ==== the window bridge and the preview toggle =============================
\* Editor.tsx publishes editorInsertContent, getEditorContent and
\* setEditorContent on window; the chat sidebar and the agent call them.
\* Their string arguments are markup, which the browser parses.

\* ---- bounds -------------------------------------------------------------
MaxDocLen == 3

\* ---- markup -------------------------------------------------------------
Letters == {"a", "b", "h", "p", "x"}
\* the htmlContent / content arguments: plain text, an element, both
Htmls == {<<"x">>, <<"<", "x", ">">>, <<"<", "x", ">", "x">>}
Modes == {"insert", "replace", "append"}

\* the rest of the markup after the tag that is open at its start; a tag
\* that never closes swallows the rest
RECURSIVE SkipTag(_)
SkipTag(h) ==
  IF h = <<>> THEN <<>>
  ELSE IF Head(h) = ">" THEN Tail(h) ELSE SkipTag(Tail(h))

\* textContent of the nodes the HTML parser builds from h: "<" followed by
\* a letter or "/" opens a tag, every other character is text
RECURSIVE TextOf(_)
TextOf(h) ==
  IF h = <<>> THEN <<>>
  ELSE IF Head(h) = "<" /\ Len(h) > 1 /\ h[2] \in Letters \cup {"/"}
         THEN TextOf(SkipTag(Tail(h)))
         ELSE <<Head(h)>> \o TextOf(Tail(h))

\* `<p>${content}</p>`
Paragraph(c) == <<"<", "p", ">">> \o c \o <<"<", "/", "p", ">">>

\* contentRef.current is the editable element; the preview element has no ref
Mounted == ~isPreview

\* the selection after the children of the editable element were replaced:
\* a range inside them collapses to the start of the element
ResetRange(r) == IF r = NoRange THEN NoRange ELSE [s |-> 0, e |-> 0]

\* document.execCommand('insertHTML', false, html), the default path of
\* editorInsertContent: the markup replaces the selection, if there is one
InsertHTMLDoc(html) ==
  IF ~Mounted \/ sel = NoRange THEN doc ELSE ReplaceRange(doc, sel, TextOf(html))
InsertHTMLSel(html) ==
  IF ~Mounted \/ sel = NoRange THEN sel
  ELSE [s |-> sel.s + Len(TextOf(html)), e |-> sel.s + Len(TextOf(html))]

\* faulty variant: a bridge function yields between its DOM operations
CallStackEmptyAlways == TRUE

\* the bridge functions are synchronous: a call made while another is
\* between two DOM operations cannot run
CallStackEmpty == bridgeCall = NoCall

Log(op, mode, arg, result) ==
  [op |-> op, mode |-> mode, arg |-> arg, docBefore |-> doc, selBefore |-> sel,
   result |-> result, error |-> ""]

\* ---- editorInsertContent ------------------------------------------------
\* actionType 'replace' with a range in the selection, first DOM operation:
\* range.deleteContents()
deleteContents(html) ==
  /\ CallStackEmpty
  /\ Mounted
  /\ sel # NoRange
  /\ Len(doc) - (sel.e - sel.s) + Len(TextOf(html)) <= MaxDocLen
  /\ doc' = ReplaceRange(doc, sel, <<>>)
  /\ sel' = [s |-> sel.s, e |-> sel.s]
  /\ bridgeCall' = [html |-> html, at |-> sel.s]
  /\ bridgeLog' = Log("deleteContents", "replace", html, <<>>)
  /\ UNCHANGED <<isPreview, input, chatOut>>
  /\ UNCHANGED workflowVars

\* second DOM operation: range.insertNode(createContextualFragment(html));
\* the range grows over the inserted nodes and the function returns nothing
insertNode ==
  /\ bridgeCall # NoCall
  /\ LET t == TextOf(bridgeCall.html) IN
       /\ doc' = SubSeq(doc, 1, bridgeCall.at) \o t
                   \o SubSeq(doc, bridgeCall.at + 1, Len(doc))
       /\ sel' = [s |-> bridgeCall.at, e |-> bridgeCall.at + Len(t)]
  /\ bridgeCall' = NoCall
  /\ bridgeLog' = [bridgeLog EXCEPT !.op = "editorInsertContent"]
  /\ UNCHANGED <<isPreview, input, chatOut>>
  /\ UNCHANGED workflowVars

\* every other path of the function is one DOM operation
editorInsertContent(html, mode) ==
  /\ CallStackEmpty
  /\ ~(Mounted /\ mode = "replace" /\ sel # NoRange)
  /\ Len(doc) + Len(TextOf(html)) <= MaxDocLen
  /\ IF ~Mounted
       THEN UNCHANGED <<doc, sel>>
       ELSE IF mode = "append"
         \* contentRef.current.innerHTML += htmlContent
         THEN /\ doc' = doc \o TextOf(html)
              /\ sel' = ResetRange(sel)
         \* document.execCommand('insertHTML'): not enabled without a range
         ELSE /\ doc' = InsertHTMLDoc(html)
              /\ sel' = InsertHTMLSel(html)
  /\ bridgeLog' = Log("editorInsertContent", mode, html, <<>>)
  /\ UNCHANGED <<isPreview, bridgeCall, input, chatOut>>
  /\ UNCHANGED workflowVars

\* ---- getEditorContent / setEditorContent --------------------------------
\* contentRef.current?.textContent || ''
EditorContent == IF Mounted THEN doc ELSE <<>>

getEditorContent ==
  /\ CallStackEmpty
  /\ bridgeLog' = Log("getEditorContent", "", <<>>, EditorContent)
  /\ UNCHANGED <<doc, sel, isPreview, bridgeCall, input, chatOut>>
  /\ UNCHANGED workflowVars

\* the pending suggestion after the children of the editable element were
\* replaced: its selectionRange is a live Range and collapses like any other
RangesReset(pd) == [pd EXCEPT !.selectionRange = ResetRange(@)]

\* faulty variant: the new content is added after the old
WrittenDocumentAppended(d, c) == d \o TextOf(Paragraph(c))

\* the text of the element after innerHTML = `<p>${content}</p>`
WrittenDocument(d, c) == TextOf(Paragraph(c))

\* contentRef.current.innerHTML = `<p>${content}</p>`
setEditorContent(c) ==
  /\ CallStackEmpty
  /\ IF Mounted
       THEN /\ doc' = WrittenDocument(doc, c)
            /\ sel' = ResetRange(sel)
            /\ previewData' = RangesReset(previewData)
       ELSE UNCHANGED <<doc, sel, previewData>>
  /\ bridgeLog' = Log("setEditorContent", "", c, <<>>)
  /\ UNCHANGED <<isPreview, bridgeCall, input, chatOut>>
  /\ UNCHANGED workflowVarsButPreview

\* ---- preview toggle -----------------------------------------------------
\* onClick={() => setIsPreview(!isPreview)}.  Entering the preview gives
\* the element the markup it already shows and detaches the ref; leaving it
\* renders the editable element with no children and no
\* dangerouslySetInnerHTML, and the effect that loads `content` does not
\* run again (isContentLoaded is true)
TogglePreview ==
  /\ CallStackEmpty
  /\ isPreview' = ~isPreview
  /\ doc' = IF isPreview THEN <<>> ELSE doc
  /\ sel' = ResetRange(sel)
  /\ bridgeLog' = Log("togglePreview", "", <<>>, <<>>)
  /\ UNCHANGED <<bridgeCall, input, chatOut>>
  /\ UNCHANGED workflowVars

NextBridge ==
  \/ \E h \in Htmls : deleteContents(h)
  \/ insertNode
  \/ \E h \in Htmls, m \in Modes : editorInsertContent(h, m)
  \/ getEditorContent
  \/ \E c \in Htmls : setEditorContent(c)
  \/ TogglePreview
  \/ \E s \in 0..Len(doc), e \in 0..Len(doc) :
       CallStackEmpty /\ Mounted /\ handleMouseUp([s |-> s, e |-> e])

SpecBridge == Init /\ [][NextBridge]_vars

\* ==== command interpretation =============================================
\* The chat sidebar (ChatSidebar.tsx) classifies a typed command with
\* detectIntent and dispatches it in handleSubmit; the agent context
\* (AgentContext.tsx, AgentContext.new.tsx) does both in processAgentCommand.
\* A command is a sequence of characters; keyword tests and replacements
\* work on characters, as String.includes and String.replace do.

\* ---- keywords and phrases of the source ---------------------------------
kwFixGrammar == <<"f", "i", "x", " ", "g", "r", "a", "m", "m", "a", "r">>
kwCorrect == <<"c", "o", "r", "r", "e", "c", "t">>
kwImproveWriting == <<"i", "m", "p", "r", "o", "v", "e", " ", "w", "r", "i", "t", "i", "n", "g">>
kwMakeProfessional == <<"m", "a", "k", "e", " ", "p", "r", "o", "f", "e", "s", "s", "i", "o", "n", "a", "l">>
kwFormalTone == <<"f", "o", "r", "m", "a", "l", " ", "t", "o", "n", "e">>
kwMakeCasual == <<"m", "a", "k", "e", " ", "c", "a", "s", "u", "a", "l">>
kwFriendlyTone == <<"f", "r", "i", "e", "n", "d", "l", "y", " ", "t", "o", "n", "e">>
kwSummarize == <<"s", "u", "m", "m", "a", "r", "i", "z", "e">>
kwMakeShorter == <<"m", "a", "k", "e", " ", "s", "h", "o", "r", "t", "e", "r">>
kwWrite == <<"w", "r", "i", "t", "e">>
kwCreate == <<"c", "r", "e", "a", "t", "e">>
kwInsert == <<"i", "n", "s", "e", "r", "t">>
kwAdd == <<"a", "d", "d">>
kwSearch == <<"s", "e", "a", "r", "c", "h">>
kwFind == <<"f", "i", "n", "d">>
kwLookUp == <<"l", "o", "o", "k", " ", "u", "p">>
kwAddToEditor == <<"a", "d", "d", " ", "t", "o", " ", "e", "d", "i", "t", "o", "r">>
kwAndInsert == <<"a", "n", "d", " ", "i", "n", "s", "e", "r", "t">>
kwAddIt == <<"a", "d", "d", " ", "i", "t">>
kwFor == <<"f", "o", "r">>
kwPlease == <<"p", "l", "e", "a", "s", "e">>
kwAnd == <<"a", "n", "d">>
kwInto == <<"i", "n", "t", "o">>
kwEditor == <<"e", "d", "i", "t", "o", "r">>
kwCrawl == <<"c", "r", "a", "w", "l">>
kwFetch == <<"f", "e", "t", "c", "h">>
kwHttp == <<"h", "t", "t", "p", ":", "/", "/">>
kwHttps == <<"h", "t", "t", "p", "s", ":", "/", "/">>

\* ---- the commands tried -------------------------------------------------
\* a command is an opening phrase, a subject and a closing phrase, joined
\* by single spaces; each may be absent
Openings == {<<>>, <<"s", "e", "a", "r", "c", "h", " ", "f", "o", "r">>,
             <<"S", "E", "A", "R", "C", "H", " ", "F", "O", "R">>,
             <<"s", "e", "a", "r", "c", "h">>,
             <<"f", "i", "n", "d">>,
             <<"l", "o", "o", "k", " ", "u", "p">>,
             <<"w", "r", "i", "t", "e">>,
             <<"g", "e", "n", "e", "r", "a", "t", "e">>,
             <<"c", "r", "a", "w", "l">>,
             <<"s", "u", "m", "m", "a", "r", "i", "z", "e">>,
             <<"f", "i", "x", " ", "g", "r", "a", "m", "m", "a", "r">>}
Subjects == {<<>>, <<"c", "a", "t", "s">>,
             <<"i", "n", "f", "o", "r", "m", "a", "t", "i", "o", "n">>,
             <<"h", "t", "t", "p", ":", "/", "/", "x", ".", "y">>,
             <<"w", "r", "i", "t", "e", "r", "s">>, <<"r", "e", "s", "e", "a", "r", "c", "h">>}
Closings == {<<>>, <<"a", "n", "d", " ", "i", "n", "s", "e", "r", "t">>, <<"a", "n", "d", " ", "a", "d", "d">>}
Space == <<" ">>
Command(o, q, c) ==
  LET a == IF o # <<>> /\ q # <<>> THEN o \o Space \o q ELSE o \o q
  IN  IF a # <<>> /\ c # <<>> THEN a \o Space \o c ELSE a \o c
Commands == {Command(o, q, c) : o \in Openings, q \in Subjects, c \in Closings}

\* ---- bounds -------------------------------------------------------------
MaxCommands == 1

\* ---- String methods -----------------------------------------------------
\* the upper-case letters that occur in Commands
UpperToLower ==
  ("S" :> "s") @@ ("E" :> "e") @@ ("A" :> "a") @@ ("R" :> "r") @@ ("C" :> "c")
    @@ ("H" :> "h") @@ ("F" :> "f") @@ ("O" :> "o")

\* String.prototype.toLowerCase
ToLowerCase(s) ==
  [i \in 1..Len(s) |-> IF s[i] \in DOMAIN UpperToLower THEN UpperToLower[s[i]] ELSE s[i]]

\* String.prototype.includes
Includes(s, p) == \E i \in 1..(Len(s) - Len(p) + 1) : SubSeq(s, i, i + Len(p) - 1) = p

\* String.prototype.startsWith
StartsWith(s, p) == Len(p) <= Len(s) /\ SubSeq(s, 1, Len(p)) = p

\* length of the match of /alts[1]|alts[2]|.../i at the start of s, 0 if
\* none: the first alternative that matches wins
MatchAt(s, alts) ==
  LET hits == {k \in 1..Len(alts) : StartsWith(ToLowerCase(s), alts[k])}
  IN  IF hits = {} THEN 0
      ELSE Len(alts[CHOOSE k \in hits : \A j \in hits : k <= j])

\* s.replace(/alts[1]|alts[2]|.../gi, '')
RECURSIVE ReplaceAll(_, _)
ReplaceAll(s, alts) ==
  IF s = <<>> THEN <<>>
  ELSE LET n == MatchAt(s, alts)
       IN  IF n > 0 THEN ReplaceAll(SubSeq(s, n + 1, Len(s)), alts)
           ELSE <<Head(s)>> \o ReplaceAll(Tail(s), alts)

\* s.replace(/p/i, ''): only the first match goes
RECURSIVE ReplaceFirst(_, _)
ReplaceFirst(s, p) ==
  IF s = <<>> THEN <<>>
  ELSE IF MatchAt(s, <<p>>) > 0 THEN SubSeq(s, Len(p) + 1, Len(s))
  ELSE <<Head(s)>> \o ReplaceFirst(Tail(s), p)

\* the characters of s up to the first white space
RECURSIVE NonSpacePrefix(_)
NonSpacePrefix(s) ==
  IF s = <<>> \/ IsSpace(Head(s)) THEN <<>> ELSE <<Head(s)>> \o NonSpacePrefix(Tail(s))

\* command.match(/https?:\/\/[^\s]+/): the first match, <<>> if none
RECURSIVE UrlMatch(_)
UrlMatch(s) ==
  IF s = <<>> THEN <<>>
  ELSE LET scheme == IF StartsWith(s, kwHttps) THEN kwHttps
                     ELSE IF StartsWith(s, kwHttp) THEN kwHttp ELSE <<>>
           rest == NonSpacePrefix(SubSeq(s, Len(scheme) + 1, Len(s)))
       IN  IF scheme # <<>> /\ rest # <<>> THEN scheme \o rest
           ELSE UrlMatch(Tail(s))

\* ---- detectIntent -------------------------------------------------------
Intent(type, action, needsEditor) ==
  [type |-> type, action |-> action, needsEditor |-> needsEditor]

\* faulty variant: the search rule is tried before the creation rule
IntentOfSearchFirst(lower) ==
  IF \/ Includes(lower, kwFixGrammar) \/ Includes(lower, kwCorrect)
     \/ Includes(lower, kwImproveWriting)
    THEN Intent("editor_modify", "grammar", FALSE)
  ELSE IF Includes(lower, kwMakeProfessional) \/ Includes(lower, kwFormalTone)
    THEN Intent("editor_modify", "professional", FALSE)
  ELSE IF Includes(lower, kwMakeCasual) \/ Includes(lower, kwFriendlyTone)
    THEN Intent("editor_modify", "casual", FALSE)
  ELSE IF Includes(lower, kwSummarize) \/ Includes(lower, kwMakeShorter)
    THEN Intent("editor_modify", "summarize", FALSE)
  ELSE IF \/ Includes(lower, kwSearch) \/ Includes(lower, kwFind)
          \/ Includes(lower, kwLookUp)
    THEN Intent("search", "", Includes(lower, kwInsert) \/ Includes(lower, kwAdd))
  ELSE IF /\ Includes(lower, kwWrite) \/ Includes(lower, kwCreate)
          /\ Includes(lower, kwInsert) \/ Includes(lower, kwAdd)
    THEN Intent("create_and_insert", "", FALSE)
  ELSE IF Includes(lower, kwInsert) \/ Includes(lower, kwAddToEditor)
    THEN Intent("editor_insert", "", FALSE)
  ELSE Intent("chat", "", FALSE)

\* the rules of detectIntent on the lower-cased message, first match wins
IntentOf(lower) ==
  IF \/ Includes(lower, kwFixGrammar) \/ Includes(lower, kwCorrect)
     \/ Includes(lower, kwImproveWriting)
    THEN Intent("editor_modify", "grammar", FALSE)
  ELSE IF Includes(lower, kwMakeProfessional) \/ Includes(lower, kwFormalTone)
    THEN Intent("editor_modify", "professional", FALSE)
  ELSE IF Includes(lower, kwMakeCasual) \/ Includes(lower, kwFriendlyTone)
    THEN Intent("editor_modify", "casual", FALSE)
  ELSE IF Includes(lower, kwSummarize) \/ Includes(lower, kwMakeShorter)
    THEN Intent("editor_modify", "summarize", FALSE)
  ELSE IF /\ Includes(lower, kwWrite) \/ Includes(lower, kwCreate)
          /\ Includes(lower, kwInsert) \/ Includes(lower, kwAdd)
    THEN Intent("create_and_insert", "", FALSE)
  ELSE IF \/ Includes(lower, kwSearch) \/ Includes(lower, kwFind)
          \/ Includes(lower, kwLookUp)
    THEN Intent("search", "", Includes(lower, kwInsert) \/ Includes(lower, kwAdd))
  ELSE IF Includes(lower, kwInsert) \/ Includes(lower, kwAddToEditor)
    THEN Intent("editor_insert", "", FALSE)
  ELSE Intent("chat", "", FALSE)

\* faulty variant: the message is matched as typed
detectIntentCaseSensitive(message) == IntentOf(message)

detectIntent(message) == IntentOf(ToLowerCase(message))

\* ---- messages and provider data -----------------------------------------
Pending == "pending"
\* how a provider request ends: a success status with content, with empty
\* content, or with a payload that lacks the expected fields; a rejected
\* fetch; a 401 or a 500 status
Outcomes == {"ok", "empty", "malformed", "network", "401", "500"}

\* faulty variant: response.ok is not tested
HttpOkAlways(outcome) == TRUE

\* response.ok
HttpOk(outcome) == outcome \in {"ok", "empty", "malformed"}

\* fetch rejects
FetchThrows(outcome) == outcome = "network"

\* a field the payload does not have; a template literal prints it so
Missing == "undefined"

\* data.response of /api/chat, as a template literal prints it
ChatResponse(outcome) ==
  IF outcome = "ok" THEN <<"x">>
  ELSE IF outcome = "malformed" THEN <<Missing>> ELSE <<>>

\* data.result.results of /api/agent: a complete result, then a bare one
ProviderResults(outcome) ==
  IF outcome = "ok"
    THEN << [title |-> "a", url |-> "u", snippet |-> "s"],
            [title |-> Missing, url |-> Missing, snippet |-> Missing] >>
    ELSE <<>>

PromptSuffix ==
  <<". Return only the content without any explanations or introductory text.">>
ModifyPrompt(action) ==
  IF action = "grammar" THEN <<"Please fix any grammar, spelling, and punctuation errors in this text while keeping the original meaning: ">>
  ELSE IF action = "professional" THEN <<"Rewrite this text in a professional, formal tone: ">>
  ELSE IF action = "casual" THEN <<"Rewrite this text in a casual, friendly tone: ">>
  ELSE <<"Create a concise summary of this text: ">>

\* ---- search results -----------------------------------------------------
\* result.title || 'Untitled' and its like in performWebSearch
WithDefaults(r) ==
  [title |-> IF r.title = Missing THEN "Untitled" ELSE r.title,
   url |-> IF r.url = Missing THEN "#" ELSE r.url,
   snippet |-> IF r.snippet = Missing THEN "No description available" ELSE r.snippet]

\* the fields handleWebSearch of the chat sidebar copies
AsReturned(r) == [title |-> r.title, url |-> r.url, snippet |-> r.snippet]

\* `<h3>${title}</h3><p>${snippet}</p><p><a href="${url}" ...>Read more</a></p>`
ResultHtml(r) ==
  <<"<", "h", "3", ">", r.title, "<", "/", "h", "3", ">",
    "<", "p", ">", r.snippet, "<", "/", "p", ">",
    "<", "p", ">", "<", "a", " ", "href=", r.url, ">", "Read more",
    "<", "/", "a", ">", "<", "/", "p", ">">>

\* '<br/><br/>'
Breaks == <<"<", "b", "r", "/", ">", "<", "b", "r", "/", ">">>

\* parts.join(separator)
RECURSIVE Join(_, _)
Join(parts, separator) ==
  IF parts = <<>> THEN <<>>
  ELSE IF Len(parts) = 1 THEN parts[1]
  ELSE Head(parts) \o separator \o Join(Tail(parts), separator)

\* faulty variant: the results are rendered last to first
FormatResultsReversed(results) ==
  Join([i \in 1..Len(results) |-> ResultHtml(results[Len(results) + 1 - i])], Breaks)

\* results.map(result => markup).join('<br/><br/>')
FormatResults(results) == Join([i \in 1..Len(results) |-> ResultHtml(results[i])], Breaks)

\* ---- AgentContext tools -------------------------------------------------
\* how an async function ends: it throws (its promise rejects) or returns
Thrown(message) ==
  [threw |-> TRUE, message |-> message, results |-> <<>>, requests |-> 1]
Returned(message, results) ==
  [threw |-> FALSE, message |-> message, results |-> results, requests |-> 1]

\* the try block of performWebSearch
performWebSearchTry(outcome) ==
  IF FetchThrows(outcome) THEN Thrown("Failed to fetch")
  ELSE IF ~HttpOk(outcome) THEN Thrown("HTTP error! status: " \o outcome)
  ELSE IF outcome = "malformed" THEN Thrown("Invalid response format from server")
  ELSE Returned("Found results",
                [i \in 1..Len(ProviderResults(outcome)) |->
                   WithDefaults(ProviderResults(outcome)[i])])

\* the message performWebSearch's catch gives for a thrown one
SearchErrorMessage(message) ==
  IF message = "Failed to fetch"
    THEN "Unable to connect to search service. Please check if the backend is running."
    ELSE "Error performing search"

\* faulty variant: the function has no catch
performWebSearchUncaught(outcome) == performWebSearchTry(outcome)

performWebSearch(outcome) ==
  LET r == performWebSearchTry(outcome) IN
    IF r.threw THEN Returned(SearchErrorMessage(r.message), <<>>) ELSE r

\* faulty variant: a failed request is sent once more
crawlUrlRetrying(outcome) ==
  IF FetchThrows(outcome) \/ ~HttpOk(outcome)
    THEN [Returned("Error: Unable to crawl the specified URL", <<>>) EXCEPT !.requests = 2]
  ELSE IF outcome = "ok" THEN Returned("data.result.content", <<>>)
  ELSE Returned("Unable to crawl URL", <<>>)

\* crawlUrl: data.result?.content || 'Unable to crawl URL', and a catch
crawlUrl(outcome) ==
  IF FetchThrows(outcome) \/ ~HttpOk(outcome)
    THEN Returned("Error: Unable to crawl the specified URL", <<>>)
  ELSE IF outcome = "ok" THEN Returned("data.result.content", <<>>)
  ELSE Returned("Unable to crawl URL", <<>>)

\* summarizeContent: data.response || 'Unable to summarize content', and a catch
summarizeContent(outcome) ==
  IF FetchThrows(outcome) \/ ~HttpOk(outcome)
    THEN Returned("Error: Unable to summarize the provided content", <<>>)
  ELSE IF outcome = "ok" THEN Returned("data.response", <<>>)
  ELSE Returned("Unable to summarize content", <<>>)

Out(handler, intent, arg, provider, reply) ==
  [handler |-> handler, command |-> input, intent |-> intent.type,
   action |-> intent.action, needsEditor |-> intent.needsEditor, arg |-> arg,
   provider |-> provider, reply |-> reply, n |-> chatOut.n + 1,
   calls |-> IF provider = "" THEN 0 ELSE 1, rejected |-> FALSE, outcome |-> "",
   docAtSubmit |-> doc, results |-> <<>>, inserted |-> <<>>,
   docAtSettle |-> <<>>, readyAtWrite |-> 0,
   messages |-> <<>>, isLoading |-> FALSE, hasEditorAction |-> FALSE]

\* a component calls a tool of the agent context directly, as AgentCommand
\* does with performWebSearch
AgentTool(fn, outcome) ==
  /\ chatOut.reply # Pending
  /\ chatOut.n < MaxCommands
  /\ LET r == IF fn = "performWebSearch" THEN performWebSearch(outcome)
              ELSE IF fn = "crawlUrl" THEN crawlUrl(outcome)
              ELSE summarizeContent(outcome)
     IN chatOut' = [Out(fn, Intent("", "", FALSE), input,
                        IF fn = "performWebSearch" THEN "web_search"
                        ELSE IF fn = "crawlUrl" THEN "crawl_url" ELSE "chat",
                        r.message)
                      EXCEPT !.rejected = r.threw, !.calls = r.requests,
                             !.outcome = outcome, !.results = r.results]
  /\ UNCHANGED <<doc, sel, isPreview, bridgeCall, bridgeLog, input>>
  /\ UNCHANGED workflowVars

\* ---- ChatSidebar messages ------------------------------------------------
\* setMessages(prev => [...prev, message]): the roles of the appended messages
AppendMessage(messages, role) == Append(messages, role)

\* faulty variant: the catch of handleSubmit shows no message
CatchAppendsNothing(messages) == messages

\* the catch of handleSubmit appends the error text as an assistant message
CatchAppends(messages) == AppendMessage(messages, "assistant")

\* the try block of handleSubmit throws: a fetch of its own rejects, or
\* the generated response has no text to trim
SubmitThrows(intent, outcome) ==
  /\ intent \notin {"editor_modify", "search"}
  /\ \/ FetchThrows(outcome)
     \/ intent = "create_and_insert" /\ HttpOk(outcome) /\ outcome = "malformed"

\* what handleSubmit has done when it reaches its first await, or its end
\* if it awaits no provider: the user message is shown and isLoading is set;
\* a whole-document transform that found nothing to send has also answered
Submitted(out) ==
  [out EXCEPT
     !.messages = IF out.reply = Pending
                    THEN AppendMessage(<<>>, "user")
                    ELSE AppendMessage(AppendMessage(<<>>, "user"), "assistant"),
     !.isLoading = out.reply = Pending,
     !.hasEditorAction = out.reply # Pending /\ out.intent = "editor_modify"]

\* ---- ChatSidebar.handleSubmit -------------------------------------------
\* the handler up to its first await; connected stands for
\* connectionStatus === 'connected' && token
handleSubmit(connected) ==
  /\ chatOut.reply # Pending
  /\ chatOut.n < MaxCommands
  /\ IF Trim(input) = <<>>
       THEN UNCHANGED <<input, chatOut>>
     ELSE IF ~connected
       THEN /\ chatOut' = Out("handleSubmit", Intent("", "", FALSE), <<>>, "",
                              "alert: Please login first or check your connection.")
            /\ UNCHANGED input
     ELSE LET intent == detectIntent(input) IN
       /\ input' = <<>>
       /\ chatOut' = Submitted(
            IF intent.type = "editor_modify"
              \* modifyEditorContent
              THEN IF Trim(EditorContent) = <<>>
                     THEN Out("handleSubmit", intent, <<>>, "",
                              "No content found in the editor to modify.")
                     ELSE Out("handleSubmit", intent,
                              ModifyPrompt(intent.action) \o EditorContent,
                              "chat", Pending)
            ELSE IF intent.type = "create_and_insert"
              THEN Out("handleSubmit", intent,
                       ReplaceAll(input, <<kwAndInsert, kwInsert, kwAddToEditor, kwAddIt>>)
                         \o PromptSuffix,
                       "chat", Pending)
            ELSE IF intent.type = "search"
              THEN Out("handleSubmit", intent,
                       Trim(ReplaceAll(input, <<kwSearch, kwFind, kwLookUp, kwFor,
                                                kwPlease, kwInsert, kwAdd>>)),
                       "web_search", Pending)
            ELSE Out("handleSubmit", intent, input, "chat", Pending))
  /\ UNCHANGED <<doc, sel, isPreview, bridgeCall, bridgeLog>>
  /\ UNCHANGED workflowVars

\* the assistant message of handleSubmit once the provider answered
SubmitReply(intent, needsEditor, outcome) ==
  IF intent = "editor_modify"
    THEN IF FetchThrows(outcome) THEN "Failed to modify content. Please try again."
         ELSE IF ~HttpOk(outcome)
           THEN "Unable to access editor content. Please ensure the editor is ready."
         ELSE "Content has been modified in your editor."
  ELSE IF intent = "search"
    \* handleWebSearch throws on a rejected fetch and on a failure status
    THEN IF FetchThrows(outcome) \/ ~HttpOk(outcome)
           THEN "Sorry, web search is currently unavailable. Please try again later."
         ELSE IF outcome # "ok"
           THEN "No results found. Please try a different search term."
         ELSE IF needsEditor
           THEN "Found results; Search results have been inserted into your editor!"
           ELSE "Found results"
  \* the other fetches are inside the outer try only
  ELSE IF FetchThrows(outcome)
    THEN "Unable to connect to the AI service. Please check if the backend is running."
  ELSE IF intent = "create_and_insert"
    THEN IF ~HttpOk(outcome) THEN "Sorry, I could not generate the requested content."
         \* aiResponse.trim() of an absent response throws a TypeError
         ELSE IF outcome = "malformed"
           THEN "Sorry, I encountered an error processing your request."
         ELSE "I've generated and inserted the content into your editor"
  ELSE IF ~HttpOk(outcome) THEN "Sorry, I encountered an error processing your request."
  ELSE IF outcome = "ok" THEN "data.response"
  ELSE "Sorry, I could not process your request."

\* the handler after the provider answered
handleSubmitSettles(outcome) ==
  /\ chatOut.handler = "handleSubmit"
  /\ chatOut.reply = Pending
  /\ LET answered == ~FetchThrows(outcome) /\ HttpOk(outcome)
         results == [i \in 1..Len(ProviderResults(outcome)) |->
                       AsReturned(ProviderResults(outcome)[i])]
         html ==
           IF chatOut.intent = "create_and_insert" /\ answered /\ outcome # "malformed"
             THEN Paragraph(Trim(ChatResponse(outcome)))
           ELSE IF chatOut.intent = "search" /\ answered /\ results # <<>>
                   /\ chatOut.needsEditor
             THEN FormatResults(results)
           ELSE <<>>
         inserts ==
           \/ chatOut.intent = "create_and_insert" /\ answered /\ outcome # "malformed"
           \/ chatOut.intent = "search" /\ answered /\ results # <<>> /\ chatOut.needsEditor
     IN
       /\ IF chatOut.intent = "editor_modify" /\ answered /\ Mounted
            \* setEditorContent(improvedContent)
            THEN /\ doc' = WrittenDocument(doc, ChatResponse(outcome))
                 /\ sel' = ResetRange(sel)
                 /\ previewData' = RangesReset(previewData)
          ELSE IF inserts
            \* insertIntoEditor(html)
            THEN /\ doc' = InsertHTMLDoc(html)
                 /\ sel' = InsertHTMLSel(html)
                 /\ UNCHANGED previewData
          ELSE UNCHANGED <<doc, sel, previewData>>
       /\ chatOut' = [chatOut EXCEPT
            !.reply = SubmitReply(chatOut.intent, chatOut.needsEditor, outcome),
            !.outcome = outcome,
            !.results = IF chatOut.intent = "search" /\ answered THEN results ELSE <<>>,
            !.inserted = IF inserts THEN html ELSE <<>>,
            !.docAtSettle = doc,
            !.readyAtWrite = IF doc' # doc THEN readyOf.id ELSE 0,
            !.messages = IF SubmitThrows(chatOut.intent, outcome)
                           THEN CatchAppends(@)
                           ELSE AppendMessage(@, "assistant"),
            !.isLoading = FALSE,
            \* the transform branch sets it whatever modifyEditorContent returned
            !.hasEditorAction = chatOut.intent = "editor_modify" \/ inserts]
  /\ UNCHANGED <<input, isPreview, bridgeCall, bridgeLog>>
  /\ UNCHANGED workflowVarsButPreview

\* ---- AgentContext.processAgentCommand -----------------------------------
\* faulty variant: the crawl rule does not test the match
CrawlOutUnguarded ==
  Out("processAgentCommand", Intent("crawl", "", FALSE), UrlMatch(input),
      "crawl_url", Pending)

\* the crawl rule: crawl the first URL of the command, or throw, which the
\* catch of processAgentCommand turns into an error value
CrawlOut ==
  IF UrlMatch(input) # <<>>
    THEN Out("processAgentCommand", Intent("crawl", "", FALSE), UrlMatch(input),
             "crawl_url", Pending)
    ELSE Out("processAgentCommand", Intent("error", "", FALSE), <<>>, "",
             "No valid URL found in command")

processAgentCommand ==
  /\ chatOut.reply # Pending
  /\ chatOut.n < MaxCommands
  /\ LET lowerCommand == ToLowerCase(input) IN
       chatOut' =
         IF Includes(lowerCommand, kwSearch) /\ Includes(lowerCommand, kwInsert)
           THEN Out("processAgentCommand", Intent("search_and_insert", "", TRUE),
                    Trim(ReplaceAll(input, <<kwSearch, kwFor, kwAnd, kwInsert, kwInto,
                                             kwEditor, kwPlease>>)),
                    "web_search", Pending)
         ELSE IF Includes(lowerCommand, kwCrawl) \/ Includes(lowerCommand, kwFetch)
           THEN CrawlOut
         ELSE IF Includes(lowerCommand, kwSummarize)
           THEN Out("processAgentCommand", Intent("summarize", "", FALSE), <<>>, "",
                    "Please provide content to summarize or specify a URL to crawl first.")
         ELSE Out("processAgentCommand", Intent("search", "", FALSE), input,
                  "web_search", Pending)
  /\ UNCHANGED <<doc, sel, isPreview, bridgeCall, bridgeLog, input>>
  /\ UNCHANGED workflowVars

\* the command after its tool returned; whatever the tool throws is caught
\* and returned as { type: 'error', message: error.message }
processAgentCommandSettles(outcome) ==
  /\ chatOut.handler = "processAgentCommand"
  /\ chatOut.reply = Pending
  /\ LET r == IF chatOut.intent = "crawl" THEN crawlUrl(outcome)
              ELSE performWebSearch(outcome)
         html == FormatResults(r.results)
         inserts == chatOut.intent = "search_and_insert" /\ ~r.threw
     IN
       \* insertToEditor(results)
       /\ IF inserts
            THEN /\ doc' = InsertHTMLDoc(html)
                 /\ sel' = InsertHTMLSel(html)
            ELSE UNCHANGED <<doc, sel>>
       /\ chatOut' = [chatOut EXCEPT
            !.intent = IF r.threw THEN "error" ELSE @,
            !.reply = IF r.threw THEN r.message
                      ELSE IF chatOut.intent = "search_and_insert"
                        THEN "Searched and inserted results into editor."
                      ELSE IF chatOut.intent = "crawl" THEN "Crawled content"
                      ELSE "Found results",
            !.calls = r.requests,
            !.outcome = outcome,
            !.results = r.results,
            !.inserted = IF inserts THEN html ELSE <<>>,
            \* insertToEditor called editorInsertContent
            !.hasEditorAction = inserts]
  /\ UNCHANGED <<input, isPreview, bridgeCall, bridgeLog>>
  /\ UNCHANGED workflowVars

\* ---- AgentContext.new.processAgentCommand -------------------------------
processAgentCommandNew ==
  /\ chatOut.reply # Pending
  /\ chatOut.n < MaxCommands
  /\ LET lower == ToLowerCase(input)
         query == Trim(ReplaceFirst(input, kwSearch))
         url == Trim(ReplaceFirst(input, kwCrawl))
         content == Trim(ReplaceFirst(input, kwSummarize))
     IN chatOut' =
         IF Includes(lower, kwSearch)
           THEN IF query = <<>>
                  THEN Out("processAgentCommandNew", Intent("error", "", FALSE), <<>>, "",
                           "Please specify what to search for")
                  ELSE Out("processAgentCommandNew", Intent("search_and_insert", "", FALSE),
                           query, "web_search", Pending)
         ELSE IF StartsWith(lower, kwCrawl)
           THEN IF url = <<>>
                  THEN Out("processAgentCommandNew", Intent("crawl", "", FALSE), <<>>, "",
                           "Please specify a URL to crawl")
                  ELSE Out("processAgentCommandNew", Intent("crawl", "", FALSE), url,
                           "crawl", Pending)
         ELSE IF StartsWith(lower, kwSummarize)
           THEN IF content = <<>>
                  THEN Out("processAgentCommandNew", Intent("summarize", "", FALSE), <<>>, "",
                           "Please provide content to summarize or specify a URL to crawl first.")
                  ELSE Out("processAgentCommandNew", Intent("summarize", "", FALSE),
                           content, "chat", Pending)
         ELSE Out("processAgentCommandNew", Intent("error", "", FALSE), <<>>, "",
                  "Unknown command. Available commands: search, crawl, summarize")
  /\ UNCHANGED <<doc, sel, isPreview, bridgeCall, bridgeLog, input>>
  /\ UNCHANGED workflowVars

\* its performWebSearch returns a value whatever happens; its crawl and
\* summarize tools throw, and the command returns the thrown message
processAgentCommandNewSettles(outcome) ==
  /\ chatOut.handler = "processAgentCommandNew"
  /\ chatOut.reply = Pending
  /\ LET failed == FetchThrows(outcome) \/ ~HttpOk(outcome) IN
       chatOut' = [chatOut EXCEPT
         !.intent = IF chatOut.intent # "search_and_insert" /\ failed
                      THEN "error" ELSE @,
         !.reply = IF chatOut.intent = "search_and_insert"
                     THEN IF failed \/ outcome = "malformed" THEN "Search failed"
                          ELSE "search results"
                   ELSE IF failed THEN "Failed"
                   ELSE IF chatOut.intent = "crawl" THEN "Successfully crawled URL"
                   ELSE "Content summary:",
         !.outcome = outcome]
  /\ UNCHANGED <<doc, sel, isPreview, bridgeCall, bridgeLog, input>>
  /\ UNCHANGED workflowVars

InitChat ==
  /\ InitEditor
  /\ isPreview = FALSE
  /\ bridgeCall = NoCall
  /\ bridgeLog = NoLog
  /\ input \in Commands
  /\ chatOut = NoOut

Tools == {"performWebSearch", "crawlUrl", "summarizeContent"}

\* the offsets a selection is drawn from
SelectableOffsets == 0..(IF Len(doc) < MaxDocLen THEN Len(doc) ELSE MaxDocLen)

NextChat ==
  \/ \E s \in SelectableOffsets, e \in SelectableOffsets :
       handleMouseUp([s |-> s, e |-> e])
  \/ \E connected \in BOOLEAN : handleSubmit(connected)
  \/ \E outcome \in Outcomes : handleSubmitSettles(outcome)
  \/ processAgentCommand
  \/ \E outcome \in Outcomes : processAgentCommandSettles(outcome)
  \/ processAgentCommandNew
  \/ \E outcome \in Outcomes : processAgentCommandNewSettles(outcome)
  \/ \E fn \in Tools, outcome \in Outcomes : AgentTool(fn, outcome)

SpecChat == InitChat /\ [][NextChat]_vars

\* ---- a chat command while the suggestion workflow runs --------------------
\* the editor and the chat sidebar are mounted side by side: a command
\* that transforms the whole document can be outstanding, and can settle,
\* at any point of the suggestion workflow
ModifyCommands == {Command(<<"f", "i", "x", " ", "g", "r", "a", "m", "m", "a", "r">>, <<>>, <<>>)}

\* how the whole-document transform ends in this specification
OverlapOutcomes == {"ok", "500"}

InitOverlap ==
  /\ InitEditor
  /\ isPreview = FALSE
  /\ bridgeCall = NoCall
  /\ bridgeLog = NoLog
  /\ input \in ModifyCommands
  /\ chatOut = NoOut

\* the backend is up: the health checks of the editor and of the sidebar succeed
NextOverlap ==
  \/ checkConnection(TRUE)
  \/ \E s \in 0..Len(doc), e \in 0..Len(doc) : handleMouseUp([s |-> s, e |-> e])
  \/ handleFloatingAction("edit")
  \/ \E req \in requests, resp \in Responses : ResponseOk(req, resp)
  \/ handlePreviewAccept
  \/ handlePreviewReject
  \/ handleSubmit(TRUE)
  \/ \E outcome \in OverlapOutcomes : handleSubmitSettles(outcome)

SpecOverlap == InitOverlap /\ [][NextOverlap]_vars

\* ---- a chat insertion and the preview toggle ------------------------------
\* commands of the chat sidebar that end in insertIntoEditor
InsertCommands ==
  {Command(<<"w", "r", "i", "t", "e">>, <<"c", "a", "t", "s">>,
           <<"a", "n", "d", " ", "i", "n", "s", "e", "r", "t">>),
   Command(<<"s", "e", "a", "r", "c", "h", " ", "f", "o", "r">>, <<"c", "a", "t", "s">>,
           <<"a", "n", "d", " ", "i", "n", "s", "e", "r", "t">>)}

InitInsert ==
  /\ InitEditor
  /\ isPreview = FALSE
  /\ bridgeCall = NoCall
  /\ bridgeLog = NoLog
  /\ input \in InsertCommands
  /\ chatOut = NoOut

\* the bridge functions stay registered while the preview is shown: the
\* effect that registers them runs once, at mount
NextInsert ==
  \/ TogglePreview
  \/ \E s \in SelectableOffsets, e \in SelectableOffsets :
       Mounted /\ handleMouseUp([s |-> s, e |-> e])
  \/ \E connected \in BOOLEAN : handleSubmit(connected)
  \/ \E outcome \in Outcomes : handleSubmitSettles(outcome)

SpecInsert == InitInsert /\ [][NextInsert]_vars

\* ---- AuthProvider --------------------------------------------------------
MaxAuthCalls == 3

\* how a request to the backend ends: a success status with the expected
\* payload, a success status with a payload that lacks token or user, a 401,
\* a rejected fetch
AuthOutcomes == {"ok", "malformed", "401", "network"}

\* everything but the AuthProvider
nonAuthVars == <<doc, sel, selectedText, showFloatingToolbar, isProcessing, isConnected,
                 connectionChecked, pendingChecks, showPreviewModal, previewData,
                 requests, readyOf, nTriggers, docVersion, lastOp, lastAlert,
                 isPreview, bridgeCall, bridgeLog, input, chatOut>>

\* localStorage at mount: empty, or the entries an earlier login left
MountSessions ==
  {NoSession, [NoSession EXCEPT !.storedToken = "t1", !.storedUser = "u1"]}

\* an async function of the provider suspended at its fetch, with the token
\* its closure holds
Call(op, token) == [op |-> op, token |-> token]

\* setUser(null); setToken(null); localStorage.removeItem twice
Cleared(a) ==
  [a EXCEPT !.user = None, !.token = None, !.storedToken = None, !.storedUser = None]

\* setUser(data.user); setToken(data.token); localStorage.setItem twice
SignedIn(a) ==
  [a EXCEPT !.user = "u2", !.token = "t2", !.storedToken = "t2", !.storedUser = "u2"]

\* the mount effect, up to its await
initializeAuth ==
  /\ ~auth.mounted
  /\ auth' =
       IF auth.storedToken # None /\ auth.storedUser # None
         THEN [auth EXCEPT !.mounted = TRUE, !.last = "initializeAuth",
                           !.pending = @ \cup {Call("restore", auth.storedToken)}]
         ELSE [auth EXCEPT !.mounted = TRUE, !.last = "initializeAuth",
                           !.isLoading = FALSE]
  /\ UNCHANGED nonAuthVars

\* /api/auth/me answered: the saved token is kept with the user of the
\* payload, or the saved entries are removed
initializeAuthSettles(call, outcome) ==
  /\ call \in auth.pending
  /\ call.op = "restore"
  /\ auth' =
       LET a == [auth EXCEPT !.pending = @ \ {call}, !.isLoading = FALSE,
                             !.last = "initializeAuth"]
       IN IF outcome = "ok"
            THEN [a EXCEPT !.token = call.token, !.user = "u1"]
          ELSE IF outcome = "malformed"
            \* setUser(data.user) with a payload that has no user
            THEN [a EXCEPT !.token = call.token, !.user = None]
          ELSE [a EXCEPT !.storedToken = None, !.storedUser = None]
  /\ UNCHANGED nonAuthVars

\* login and register up to their await: the call is in flight
SignInStarted(a, op) ==
  [a EXCEPT !.pending = @ \cup {Call(op, None)}, !.n = @ + 1, !.last = op,
            !.threw = FALSE]

\* the rest of login and register: data.token && data.user, or a throw
SignInSettled(a, op, outcome) ==
  LET b == [a EXCEPT !.pending = @ \ {Call(op, None)}, !.last = op] IN
    IF outcome = "ok"
      THEN [SignedIn(b) EXCEPT !.threw = FALSE]
      ELSE [b EXCEPT !.threw = TRUE]

login ==
  /\ auth.mounted
  /\ auth.n < MaxAuthCalls
  /\ Call("login", None) \notin auth.pending
  /\ auth' = SignInStarted(auth, "login")
  /\ UNCHANGED nonAuthVars

loginSettles(outcome) ==
  /\ Call("login", None) \in auth.pending
  /\ auth' = SignInSettled(auth, "login", outcome)
  /\ UNCHANGED nonAuthVars

register ==
  /\ auth.mounted
  /\ auth.n < MaxAuthCalls
  /\ Call("register", None) \notin auth.pending
  /\ auth' = SignInStarted(auth, "register")
  /\ UNCHANGED nonAuthVars

registerSettles(outcome) ==
  /\ Call("register", None) \in auth.pending
  /\ auth' = SignInSettled(auth, "register", outcome)
  /\ UNCHANGED nonAuthVars

\* logout with the token of the closure it was called from: with a token it
\* waits for the backend, without one it clears at once
LogoutStarts(a, token) ==
  IF token # None
    THEN [a EXCEPT !.pending = @ \cup {Call("logout", token)}]
    ELSE Cleared(a)

logout ==
  /\ auth.mounted
  /\ auth.n < MaxAuthCalls
  /\ auth' = [LogoutStarts(auth, auth.token) EXCEPT !.n = @ + 1, !.last = "logout",
                                                    !.threw = FALSE]
  /\ UNCHANGED nonAuthVars

\* the backend logout settled, whichever way: the finally block
logoutSettles(call, outcome) ==
  /\ call \in auth.pending
  /\ call.op = "logout"
  /\ auth' = Cleared([auth EXCEPT !.pending = @ \ {call}, !.last = "logout"])
  /\ UNCHANGED nonAuthVars

\* makeAuthenticatedRequest, up to its await
makeAuthenticatedRequest ==
  /\ auth.mounted
  /\ auth.n < MaxAuthCalls
  /\ auth' =
       IF auth.token = None
         THEN [auth EXCEPT !.n = @ + 1, !.last = "makeAuthenticatedRequest",
                           !.threw = TRUE]
         ELSE [auth EXCEPT !.n = @ + 1, !.last = "makeAuthenticatedRequest",
                           !.threw = FALSE,
                           !.pending = @ \cup {Call("request", auth.token)}]
  /\ UNCHANGED nonAuthVars

\* its fetch answered: a 401 calls logout(), unawaited, and throws
makeAuthenticatedRequestSettles(call, outcome) ==
  /\ call \in auth.pending
  /\ call.op = "request"
  /\ auth' =
       LET a == [auth EXCEPT !.pending = @ \ {call},
                             !.last = "makeAuthenticatedRequest"]
       IN IF outcome = "401"
            THEN [LogoutStarts(a, call.token) EXCEPT !.threw = TRUE]
          ELSE IF outcome = "network" THEN [a EXCEPT !.threw = TRUE]
          ELSE [a EXCEPT !.threw = FALSE]
  /\ UNCHANGED nonAuthVars

InitAuth ==
  /\ InitWorkflow
  /\ InitAux
  /\ auth \in MountSessions

NextAuth ==
  \/ initializeAuth
  \/ \E call \in auth.pending, outcome \in AuthOutcomes : initializeAuthSettles(call, outcome)
  \/ login
  \/ \E outcome \in AuthOutcomes : loginSettles(outcome)
  \/ register
  \/ \E outcome \in AuthOutcomes : registerSettles(outcome)
  \/ logout
  \/ \E call \in auth.pending, outcome \in AuthOutcomes : logoutSettles(call, outcome)
  \/ makeAuthenticatedRequest
  \/ \E call \in auth.pending, outcome \in AuthOutcomes :
       makeAuthenticatedRequestSettles(call, outcome)

SpecAuth == InitAuth /\ [][NextAuth]_vars

\* ---- claims about the bridge --------------------------------------------
\* C11: editorInsertContent in 'replace' mode with no range in the window
\* selection leaves the document as it was and reports the error
\* NoActiveSelection.
C11_ReplaceWithoutSelectionIsError ==
  (/\ bridgeLog.op = "editorInsertContent"
   /\ bridgeLog.mode = "replace"
   /\ bridgeLog.selBefore = NoRange
   /\ Mounted)
    => /\ doc = bridgeLog.docBefore
       /\ bridgeLog.error = "NoActiveSelection"

\* C12: calls through the bridge are serialized: while a mutation is
\* between its DOM operations, the only step that runs is its completion,
\* so no read, mutation, selection change or toggle observes the document
\* half mutated.
C12_BridgeCallsSerialized ==
  [][bridgeCall # NoCall
       => /\ bridgeCall' = NoCall
          /\ bridgeLog'.op = "editorInsertContent"
          /\ bridgeLog'.arg = bridgeCall.html
          /\ bridgeLog'.docBefore = bridgeLog.docBefore]_vars

\* a replace call has deleted the selected text and not yet inserted
C12_Witness ==
  /\ bridgeCall # NoCall
  /\ bridgeLog.op = "deleteContents"
  /\ Len(doc) < Len(bridgeLog.docBefore)

\* C13: switching the preview on and off again leaves the document as it
\* was.
C13_PreviewRoundTripKeepsDocument ==
  (bridgeLog.op = "togglePreview" /\ ~isPreview) => doc = bridgeLog.docBefore

\* C14: after setEditorContent(c) on a mounted editor, getEditorContent()
\* returns exactly c, for every string c.
C14_SetAllThenReadReturnsContent ==
  (bridgeLog.op = "setEditorContent" /\ Mounted) => EditorContent = bridgeLog.arg

\* ---- claims about command interpretation --------------------------------
\* a command went through the classifier of the chat sidebar
Classified == chatOut.handler = "handleSubmit" /\ chatOut.intent # ""
IntentTypes == {"editor_modify", "create_and_insert", "search", "editor_insert", "chat"}
ClassifierKeywords ==
  {kwFixGrammar, kwCorrect, kwImproveWriting, kwMakeProfessional, kwFormalTone,
   kwMakeCasual, kwFriendlyTone, kwSummarize, kwMakeShorter, kwWrite, kwCreate,
   kwInsert, kwAdd, kwSearch, kwFind, kwLookUp, kwAddToEditor}

\* C15: detectIntent gives every command exactly one intent of the fixed
\* set, the chat intent when the command holds no keyword, and the same
\* intent to a command and to its lower-case spelling.
C15_ClassificationTotalCaseInsensitive ==
  Classified =>
    LET lower == ToLowerCase(chatOut.command) IN
      /\ chatOut.intent \in IntentTypes
      /\ chatOut.intent = detectIntent(lower).type
      /\ chatOut.needsEditor = detectIntent(lower).needsEditor
      /\ (\A k \in ClassifierKeywords : ~Includes(lower, k)) => chatOut.intent = "chat"

\* a command typed in capitals was classified by its keyword
C15_Witness ==
  /\ Classified
  /\ chatOut.command # ToLowerCase(chatOut.command)
  /\ chatOut.intent = "search"

\* the generation verb that only the rule table of the claim names
kwGenerate == <<"g", "e", "n", "e", "r", "a", "t", "e">>

\* the intent of the first matching rule in the order transform,
\* generation with insertion, search, URL, chat
FirstMatchingRule(lower) ==
  IF \E k \in {kwFixGrammar, kwCorrect, kwImproveWriting, kwMakeProfessional,
               kwFormalTone, kwMakeCasual, kwFriendlyTone, kwSummarize,
               kwMakeShorter} : Includes(lower, k)
    THEN "editor_modify"
  ELSE IF /\ \E k \in {kwWrite, kwCreate, kwGenerate} : Includes(lower, k)
          /\ \E k \in {kwInsert, kwAdd} : Includes(lower, k)
    THEN "create_and_insert"
  ELSE IF \E k \in {kwSearch, kwFind, kwLookUp} : Includes(lower, k)
    THEN "search"
  ELSE IF UrlMatch(lower) # <<>>
    THEN "crawl"
  ELSE "chat"

HasTransform(lower) ==
  \E k \in {kwFixGrammar, kwCorrect, kwImproveWriting, kwMakeProfessional,
            kwFormalTone, kwMakeCasual, kwFriendlyTone, kwSummarize,
            kwMakeShorter} : Includes(lower, k)
HasCreation(lower) ==
  /\ Includes(lower, kwWrite) \/ Includes(lower, kwCreate)
  /\ Includes(lower, kwInsert) \/ Includes(lower, kwAdd)
HasSearch(lower) == \E k \in {kwSearch, kwFind, kwLookUp} : Includes(lower, k)

C17_UrlAlwaysCrawl ==
  (chatOut.intent # "" /\ UrlMatch(chatOut.command) # <<>>)
    => /\ chatOut.intent = "crawl"
       /\ chatOut.arg = UrlMatch(chatOut.command)

\* C18: for a command "write X and insert" the intent is create_and_insert
\* and the prompt handed to the completion provider is X.
C18_WriteXAndInsertPromptIsX ==
  \A x \in Subjects \ {<<>>} :
    (Classified /\ chatOut.command = Command(kwWrite, x, kwAndInsert))
      => /\ chatOut.intent = "create_and_insert"
         /\ chatOut.provider = "chat"
         /\ chatOut.arg = x

\* C19: for a command "search for Q and insert" the query handed to the
\* search provider is exactly Q, with insertion of the results requested.
C19_SearchQueryIsQ ==
  \A q \in Subjects \ {<<>>} :
    (/\ chatOut.handler \in {"handleSubmit", "processAgentCommand"}
     /\ chatOut.intent # ""
     /\ chatOut.command = Command(kwSearch \o Space \o kwFor, q, kwAndInsert))
      => /\ chatOut.provider = "web_search"
         /\ chatOut.arg = q
         /\ chatOut.needsEditor

\* C20: no provider is called with an empty query or URL: a command whose
\* extracted argument is empty is answered with an error instead.
C20_EmptyArgumentNotForwarded ==
  (chatOut.command # <<>> /\ chatOut.provider \in {"web_search", "crawl_url", "crawl"})
    => chatOut.arg # <<>>

\* ---- claims about dispatch ----------------------------------------------
\* the command reached the crawl rule of processAgentCommand
CrawlCommand(c) ==
  LET lower == ToLowerCase(c) IN
    /\ Includes(lower, kwCrawl) \/ Includes(lower, kwFetch)
    /\ ~(Includes(lower, kwSearch) /\ Includes(lower, kwInsert))

DispatcherFunctions ==
  Tools \cup {"processAgentCommand"}

\* C22: performWebSearch, crawlUrl, summarizeContent and processAgentCommand
\* resolve to a value for every provider outcome: none of them rejects, and
\* once the provider has answered each has produced its result.
C22_DispatcherNeverRejects ==
  (chatOut.handler \in DispatcherFunctions /\ chatOut.outcome \in Outcomes)
    => /\ ~chatOut.rejected
       /\ chatOut.reply \notin {Pending, ""}

C22_Witness ==
  /\ chatOut.handler = "performWebSearch"
  /\ chatOut.outcome = "network"
  /\ ~chatOut.rejected
  /\ chatOut.reply = "Unable to connect to search service. Please check if the backend is running."

\* the messages that tell the user to sign in again: the one of the chat
\* sidebar and the one of the editor's transform request
AuthenticationMessages ==
  {"Authentication error. Please login again.",
   "Authentication failed. Please login again."}

\* C23: a 401 from a provider call of the chat sidebar (chat completion,
\* whole-document transform, generation, web search) is shown as an
\* authentication message, not as the message of a generic failure, and the
\* request is sent once.
C23_UnauthorizedIsAuthenticationError ==
  (chatOut.handler = "handleSubmit" /\ chatOut.outcome = "401")
    => /\ chatOut.reply \in AuthenticationMessages
       /\ chatOut.calls = 1

\* a normalized result is the provider's result, absent fields defaulted or not
SameResult(normalized, provided) ==
  normalized \in {AsReturned(provided), WithDefaults(provided)}

\* the text a rendered result list shows, result after result
RECURSIVE TextsOf(_)
TextsOf(results) ==
  IF results = <<>> THEN <<>>
  ELSE <<Head(results).title, Head(results).snippet, "Read more">> \o TextsOf(Tail(results))

Contains(d, t) ==
  \E k \in 0..(Len(d) - Len(t)) : SubSeq(d, k + 1, k + Len(t)) = t

\* the handlers that keep the normalized list of a search
SearchHandlers == {"handleSubmit", "processAgentCommand", "performWebSearch"}

\* C24: a successful search keeps the provider's results in the provider's
\* order, each exactly once, in the normalized list, in the markup passed to
\* the editor and in the document the markup was inserted into.
C24_SearchResultsKeepProviderOrder ==
  (/\ chatOut.handler \in SearchHandlers
   /\ chatOut.provider = "web_search"
   /\ chatOut.outcome = "ok")
    => /\ Len(chatOut.results) = Len(ProviderResults("ok"))
       /\ \A i \in 1..Len(chatOut.results) :
            SameResult(chatOut.results[i], ProviderResults("ok")[i])
       /\ chatOut.inserted # <<>>
            => /\ TextOf(chatOut.inserted) = TextsOf(chatOut.results)
               /\ doc # chatOut.docAtSubmit => Contains(doc, TextsOf(chatOut.results))

C24_Witness ==
  /\ chatOut.handler = "handleSubmit"
  /\ chatOut.intent = "search"
  /\ chatOut.outcome = "ok"
  /\ Len(chatOut.results) = 2
  /\ chatOut.inserted # <<>>
  /\ doc # chatOut.docAtSubmit
  /\ Contains(doc, TextsOf(chatOut.results))

\* the outcomes in which the provider did not deliver
FailureOutcomes == {"network", "401", "500"}

FailureReplies ==
  {"Failed to modify content. Please try again.",
   "Unable to access editor content. Please ensure the editor is ready.",
   "Sorry, I could not generate the requested content.",
   "Unable to connect to the AI service. Please check if the backend is running."}

\* C26: when the completion provider fails (rejected fetch or failure
\* status) during a whole-document transform or a create-and-insert started
\* from the chat, the document is the one at submit and the chat shows a
\* failure message.
C26_FailedCompletionKeepsDocument ==
  (/\ chatOut.handler = "handleSubmit"
   /\ chatOut.intent \in {"editor_modify", "create_and_insert"}
   /\ chatOut.outcome \in FailureOutcomes)
    => /\ doc = chatOut.docAtSubmit
       /\ chatOut.reply \in FailureReplies

C26_Witness ==
  /\ chatOut.handler = "handleSubmit"
  /\ chatOut.intent = "editor_modify"
  /\ chatOut.outcome = "500"
  /\ doc = chatOut.docAtSubmit
  /\ doc # <<>>
  /\ chatOut.reply = "Unable to access editor content. Please ensure the editor is ready."

\* C27: every normalized search result has a title and a snippet: where the
\* provider's result lacks one, it is "Untitled" or "No description
\* available".
C27_NormalizedResultsHaveDefaults ==
  (chatOut.handler \in SearchHandlers /\ chatOut.provider = "web_search")
    => \A i \in 1..Len(chatOut.results) :
         /\ chatOut.results[i].title \notin {Missing, ""}
         /\ chatOut.results[i].snippet \notin {Missing, ""}
         /\ chatOut.results[i] = WithDefaults(ProviderResults(chatOut.outcome)[i])

\* ---- claims about the messages of the suggestion workflow ----------------
\* what the runtime and the server word: the message of the TypeError a
\* rejected fetch throws, and a message built from the status code
RawErrorTexts == {"Failed to fetch", "Server error: 500"}

\* C28: the message shown for a failed transform request is one of a fixed
\* set: it carries neither the text of a thrown exception nor a status code.
C28_ErrorMessagesAreCanonical ==
  lastOp = "responseFail"
    => \A raw \in RawErrorTexts : lastAlert # "AI editing failed: " \o raw

\* ---- claims about a chat command during the suggestion workflow ----------
\* a bridge write changed the document while the open suggestion was Ready
BridgeWroteSinceReady ==
  /\ readyOf.id # 0
  /\ chatOut.readyAtWrite = readyOf.id

\* d2 is d with one occurrence of original replaced by suggested
ReplacesExactly(d, d2, original, suggested) ==
  \E r \in Ranges(d) :
    /\ RangeText(d, r) = original
    /\ d2 = ReplaceRange(d, r, suggested)

\* C29: when the document was changed through the bridge between Ready and
\* Accept, Accept either replaces exactly the original text by the
\* suggestion, or reports a conflict and leaves the document as it is; it
\* never inserts the suggestion without removing the original.
C29_AcceptAfterBridgeWrite ==
  [][(AcceptStep /\ BridgeWroteSinceReady)
       => \/ ReplacesExactly(doc, doc', previewData.original, previewData.suggested)
          \/ doc' = doc /\ lastAlert' # ""]_vars

ModifySucceeds ==
  /\ chatOut.reply = Pending
  /\ chatOut'.reply = "Content has been modified in your editor."

\* C30: the whole-document transform reads the document once, at submit;
\* when the provider answers, the document becomes the provider's transform
\* of that earlier content, whatever the document had become meanwhile.
C30_TransformOverwritesLaterChanges ==
  [][ModifySucceeds
       => /\ chatOut.arg = ModifyPrompt(chatOut.action) \o chatOut.docAtSubmit
          /\ doc' = TextOf(Paragraph(ChatResponse(chatOut'.outcome)))]_vars

C30_Witness ==
  /\ chatOut.reply = "Content has been modified in your editor."
  /\ chatOut.docAtSettle # chatOut.docAtSubmit
  /\ doc = TextOf(Paragraph(ChatResponse(chatOut.outcome)))

\* ---- claims about the state of the suggestion workflow -------------------
\* C31: the preview modal is open exactly when a selection range is stored
\* in previewData, and then original, suggested and actionType are all
\* non-empty: the four fields are set together when a call succeeds and
\* cleared together by Accept and by Reject.
C31_ModalOpenIffSuggestionComplete ==
  /\ showPreviewModal <=> previewData.selectionRange # NoRange
  /\ showPreviewModal
       => /\ previewData.original # <<>>
          /\ previewData.suggested # <<>>
          /\ previewData.actionType # ""
  /\ ~showPreviewModal => previewData = EmptyPreview

C31_Witness ==
  /\ showPreviewModal
  /\ previewData.selectionRange # NoRange
  /\ previewData.original # <<>>
  /\ previewData.suggested # previewData.original
  /\ lastOp = "responseOk"

\* ---- claims about the chat messages --------------------------------------
\* C32: the assistant message of a whole-document transform is marked as an
\* editor action only if the command changed the document: not when the
\* transform failed or found nothing to transform.
C32_EditorActionMeansDocumentChanged ==
  (/\ chatOut.handler = "handleSubmit"
   /\ chatOut.intent = "editor_modify"
   /\ chatOut.hasEditorAction)
    => doc # chatOut.docAtSubmit

\* handleSubmit settles having called insertIntoEditor and got true
InsertReportedStep ==
  /\ chatOut.isLoading
  /\ ~chatOut'.isLoading
  /\ chatOut.intent \in {"create_and_insert", "search"}
  /\ chatOut'.hasEditorAction

\* C33: insertIntoEditor returns true, and the chat reports the content as
\* inserted, only if the document changed; with the editor in preview mode
\* (bridge registered, editable surface not mounted) the insertion is
\* reported as a failure.
C33_InsertReportedOnlyIfMounted ==
  [][(InsertReportedStep /\ isPreview) => doc' # doc]_vars

\* C34: a chat submit that passes the guards shows one user message, then,
\* once it has settled, exactly one assistant message after it, and isLoading
\* is false again, whether the provider answered, failed or the handler
\* threw; a submit stopped by a guard shows no message and calls no provider.
C34_OneUserThenOneAssistantMessage ==
  /\ chatOut.handler = "" => chatOut = NoOut
  /\ chatOut.handler = "handleSubmit" =>
       IF chatOut.intent # ""
         THEN /\ chatOut.isLoading <=> chatOut.reply = Pending
              /\ chatOut.messages = IF chatOut.isLoading
                                      THEN <<"user">>
                                      ELSE <<"user", "assistant">>
         ELSE /\ chatOut.messages = <<>>
              /\ chatOut.calls = 0
              /\ ~chatOut.isLoading

C34_Witness ==
  /\ chatOut.handler = "handleSubmit"
  /\ chatOut.intent = "create_and_insert"
  /\ chatOut.outcome = "network"
  /\ chatOut.messages = <<"user", "assistant">>
  /\ ~chatOut.isLoading

\* ---- claims about the command box ----------------------------------------
\* C35: a search-and-insert command of the command box calls the editor
\* bridge, and reports an insertion, only when the search returned at least
\* one result.
C35_NoInsertionWithoutResults ==
  (/\ chatOut.handler = "processAgentCommand"
   /\ chatOut.outcome \in Outcomes
   /\ chatOut.results = <<>>)
    => /\ ~chatOut.hasEditorAction
       /\ chatOut.reply # "Searched and inserted results into editor."

\* a call settles with a success status while the selection has no range
DroppedStep ==
  /\ sel = NoRange
  /\ \E req \in requests : OkStep(req)

\* C36: when the provider succeeds but no selection range exists as the
\* response arrives, the suggestion is dropped: nothing is stored in
\* previewData, the modal is not opened, the document is unchanged,
\* isProcessing is false again and no notice is shown.
C36_SuggestionDroppedWithoutRange ==
  [][DroppedStep
       => /\ previewData' = previewData
          /\ showPreviewModal' = showPreviewModal
          /\ doc' = doc
          /\ ~isProcessing'
          /\ lastAlert' = ""]_vars

C36_Witness ==
  /\ lastOp = "responseOk"
  /\ sel = NoRange
  /\ nTriggers > 0
  /\ requests = {}
  /\ ~showPreviewModal
  /\ previewData = EmptyPreview
  /\ ~isProcessing
  /\ lastAlert = ""

\* C37: isProcessing is set exactly while a transform request is
\* outstanding, and every request that was started settles and leaves
\* isProcessing false: the toolbar actions do not stay disabled.
C37_ProcessingEndsWhenCallSettles ==
  /\ [](isProcessing <=> requests # {})
  /\ isProcessing ~> ~isProcessing

C37_Witness ==
  /\ ~isProcessing
  /\ requests = {}
  /\ nTriggers = MaxTriggers
  /\ lastOp = "responseFail"

\* ---- claims about the AuthProvider ---------------------------------------
\* C38: after any sequence of session restore, login, register, logout and
\* 401-triggered logout, token and user are both set or both null.
C38_TokenAndUserTogether ==
  (auth.token = None) <=> (auth.user = None)

====
